---- MODULE Spec2Model ----
(***************************************************************************)
(* routish: a route table built from declarative definitions (a segment    *)
(* trie, a named registry, an all-routes list) and the navigation objects  *)
(* that walk the trie and render URLs.                                     *)
(*                                                                         *)
(* Strings are sequences of tokens: "/", ":", "?", "=", "&", " " are the   *)
(* characters the code inspects, every other token is an indivisible run   *)
(* of ordinary characters.  JavaScript values are tagged records.  A       *)
(* JavaScript object is the sequence of its entries in iteration order.    *)
(***************************************************************************)
EXTENDS Integers, Sequences, FiniteSets, TLC

\* ------------------------------------------------------------------------
\* JavaScript values
\* ------------------------------------------------------------------------
Undefined == [k |-> "undefined"]
Null == [k |-> "null"]
NaN == [k |-> "nan"]
Num(n) == [k |-> "num", n |-> n]
JStr(s) == [k |-> "str", s |-> s]
Obj(e) == [k |-> "obj", e |-> e]
Either(tag, payload) == [k |-> "either", tag |-> tag, payload |-> payload]
\* a built-in function, such as the ones every object inherits
Builtin(name) == [k |-> "function", name |-> name]

\* typeof v
TypeOf(v) ==
  CASE v.k = "undefined" -> "undefined"
    [] v.k = "num" -> "number"
    [] v.k = "nan" -> "number"
    [] v.k = "str" -> "string"
    [] v.k = "function" -> "function"
    [] OTHER -> "object"

\* String(v)
String(v) ==
  CASE v.k = "str" -> v.s
    [] v.k = "num" -> <<ToString(v.n)>>
    [] v.k = "nan" -> <<"NaN">>
    [] v.k = "undefined" -> <<"undefined">>
    [] v.k = "null" -> <<"null">>
    [] v.k = "function" -> <<"function ">> \o v.name \o <<"() { [native code] }">>
    [] OTHER -> <<"[object Object]">>

\* Number(v) for the values of the model: the only numeric string is "5"
Number(v) ==
  CASE v.k = "num" -> v
    [] v.k = "str" /\ v.s = <<"5">> -> Num(5)
    [] OTHER -> NaN

\* JSON.stringify(v) for strings and numbers
JSONStringify(v) ==
  IF v.k = "str" THEN <<"\"">> \o v.s \o <<"\"">> ELSE String(v)

\* the truthiness of a value
Truthy(v) ==
  CASE v.k = "undefined" -> FALSE
    [] v.k = "null" -> FALSE
    [] v.k = "nan" -> FALSE
    [] v.k = "num" -> v.n # 0
    [] v.k = "str" -> v.s # <<>>
    [] OTHER -> TRUE

\* Object.keys(o), key in o, o[key] for an object given by its entries
Keys(e) == [i \in 1..Len(e) |-> e[i].key]
HasKey(e, key) == \E i \in 1..Len(e) : e[i].key = key
GetKey(e, key) ==
  IF HasKey(e, key) THEN e[CHOOSE i \in 1..Len(e) : e[i].key = key].val ELSE Undefined

\* the properties every plain object ({}) inherits from Object.prototype
ObjectPrototypeKeys == {<<"constructor">>, <<"toString">>}
\* key in o, o[key] for a plain object: own entries, then the inherited ones
In(e, key) == HasKey(e, key) \/ key \in ObjectPrototypeKeys
Member(e, key) ==
  IF HasKey(e, key) THEN GetKey(e, key)
  ELSE IF key \in ObjectPrototypeKeys THEN Builtin(IF key = <<"constructor">> THEN <<"Object">> ELSE key)
  ELSE Undefined

\* the outcome of a call: a value returned or an error thrown
Ok(v) == [ok |-> TRUE, val |-> v, cls |-> "", err |-> <<>>]
Throw(cls, msg) == [ok |-> FALSE, val |-> Undefined, cls |-> cls, err |-> msg]

\* ------------------------------------------------------------------------
\* Validators (the external collaborators) and the parser adapter
\* ------------------------------------------------------------------------
\* A validator exposes some of: being callable, parse, validateSync, decode.
\* Each exposed member names the behaviour it has; "none" means not exposed
\* and "data" means a property that is not a function.
\* map holds the field validators of a combined validator (createObjectParser).
Validator(fn, parse, validateSync, decode) ==
  [fn |-> fn, parse |-> parse, validateSync |-> validateSync, decode |-> decode, map |-> <<>>]

\* a validator value that is no object at all: a JavaScript primitive
IsPrimitive(parser) == "k" \in DOMAIN parser

\* typeof member === 'function'
IsFunction(member) == member \notin {"none", "data"}

\* the behaviours of the validators' members, as in the tests
Call(f, v) ==
  CASE f = "double" -> Ok(IF Number(v).k = "num" THEN Num(2 * Number(v).n) ELSE NaN)
    [] f = "number" -> IF Number(v).k = "nan"
                         THEN Throw("Error", <<"Invalid number">>)
                         ELSE Ok(Number(v))
    [] f = "string" -> Ok(JStr(String(v)))
    [] f = "decRight" -> Ok(Either("Right", JStr(<<"decoded-">> \o String(v))))
    [] f = "decLeft" -> Ok(Either("Left", JStr(<<"error">>)))
    [] f = "decNumber" -> IF Number(v).k = "nan"
                            THEN Ok(Either("Left", v))
                            ELSE Ok(Either("Right", Number(v)))
    [] OTHER -> Throw("TypeError", <<"not a function">>)

InvalidParserMsg ==
  <<"Invalid parser: must be a function or have .parse(), .validateSync(), or .decode() method">>

RECURSIVE runParser(_, _), ObjectParse(_, _, _, _)

\* the parse member of the validator createObjectParser returns: the loop over
\* Object.entries(parserMap), result built in the map's order
ObjectParse(map, obj, i, result) ==
  IF i > Len(map) THEN Ok(Obj(result))
  ELSE IF obj.k # "obj" THEN Throw("TypeError", <<"Cannot use 'in' operator">>)
  ELSE IF In(obj.e, map[i].key)
    THEN LET r == runParser(map[i].val, Member(obj.e, map[i].key))
         IN IF r.ok
              THEN ObjectParse(map, obj, i + 1,
                               Append(result, [key |-> map[i].key, val |-> r.val]))
              ELSE r
    ELSE ObjectParse(map, obj, i + 1, result)

\* the calling convention runParser selects: the first test that succeeds
DispatchParseFirst(parser) ==
  IF IsPrimitive(parser) THEN "throws"
  ELSE IF IsFunction(parser.parse) THEN "parse"
  ELSE IF IsFunction(parser.fn) THEN "fn"
  ELSE IF IsFunction(parser.validateSync) THEN "validateSync"
  ELSE IF IsFunction(parser.decode) THEN "decode"
  ELSE "none"

\* ('parse' in parser throws for a primitive)
Dispatch(parser) ==
  IF IsPrimitive(parser) THEN "throws"
  ELSE IF IsFunction(parser.fn) THEN "fn"
  ELSE IF IsFunction(parser.parse) THEN "parse"
  ELSE IF IsFunction(parser.validateSync) THEN "validateSync"
  ELSE IF IsFunction(parser.decode) THEN "decode"
  ELSE "none"

\* the calls runParser makes on the validator's members, in order
Invocations(parser, value) ==
  IF Dispatch(parser) \in {"none", "throws"} THEN <<>>
  ELSE <<[member |-> Dispatch(parser), arg |-> value]>>

\* what runParser does with the value decode returned
DecodedLenient(result) ==
  IF result.k \in {"undefined", "null"}
    THEN Throw("TypeError", <<"Cannot read properties of ">> \o String(result))
  ELSE IF result.k = "either" THEN Ok(result.payload)
  ELSE Throw("Error", <<"Decode failed: ", "undefined">>)

Decoded(result) ==
  IF result.k \in {"undefined", "null"}
    THEN Throw("TypeError", <<"Cannot read properties of ">> \o String(result))
  ELSE IF result.k = "either" /\ result.tag = "Right" THEN Ok(result.payload)
  ELSE IF result.k = "either" /\ result.tag = "Left"
    THEN Throw("Error", <<"Decode failed: ">> \o JSONStringify(result.payload))
  ELSE Throw("Error", <<"Decode failed: ", "undefined">>)

runParser(parser, value) ==
  LET via == Dispatch(parser)
  IN CASE via = "fn" -> Call(parser.fn, value)
       [] via = "parse" -> IF parser.parse = "objectParser"
                             THEN ObjectParse(parser.map, value, 1, <<>>)
                             ELSE Call(parser.parse, value)
       [] via = "validateSync" -> Call(parser.validateSync, value)
       [] via = "decode" -> LET result == Call(parser.decode, value)
                            IN IF result.ok THEN Decoded(result.val) ELSE result
       [] via = "throws" ->
            Throw("TypeError", <<"Cannot use 'in' operator to search for 'parse' in ">>
                                 \o String(parser))
       [] OTHER -> Throw("Error", InvalidParserMsg)

createObjectParser(parserMap) ==
  [fn |-> "none", parse |-> "objectParser", validateSync |-> "none", decode |-> "none",
   map |-> parserMap]

\* ------------------------------------------------------------------------
\* Paths
\* ------------------------------------------------------------------------
RECURSIVE Split(_, _)
\* s.split(sep)
Split(s, sep) ==
  IF \A i \in 1..Len(s) : s[i] # sep THEN <<s>>
  ELSE LET i == CHOOSE j \in 1..Len(s) : s[j] = sep /\ \A h \in 1..(j - 1) : s[h] # sep
       IN <<SubSeq(s, 1, i - 1)>> \o Split(SubSeq(s, i + 1, Len(s)), sep)

NonEmpty(seg) == seg # <<>>
\* a variant of PathSegments that keeps the empty segments
PathSegmentsUnfiltered(path) == Split(path, "/")

\* path.split('/').filter(Boolean)
PathSegments(path) == SelectSeq(Split(path, "/"), NonEmpty)

RECURSIVE Join(_, _)
\* parts.join(sep)
Join(parts, sep) ==
  IF Len(parts) = 0 THEN <<>>
  ELSE IF Len(parts) = 1 THEN parts[1]
  ELSE parts[1] \o <<sep>> \o Join(Tail(parts), sep)

StartsWithColon(seg) == Len(seg) > 0 /\ seg[1] = ":"
EndsWithSlash(s) == Len(s) > 0 /\ s[Len(s)] = "/"

\* ------------------------------------------------------------------------
\* Route definitions
\* ------------------------------------------------------------------------
\* An optional member of a config record is <<>> when absent and <<v>> when
\* present; name and meta are JavaScript values (Undefined when absent).
RouteString(path) ==
  [isString |-> TRUE, path |-> path, params |-> <<>>, query |-> <<>>,
   name |-> Undefined, meta |-> Undefined]
RouteConfig(path, params, query, name, meta) ==
  [isString |-> FALSE, path |-> path, params |-> params, query |-> query,
   name |-> name, meta |-> meta]

\* config.params?.[name]: <<>> when there is none
ParamsGet(config, name) ==
  IF config.params = <<>> \/ ~HasKey(config.params[1], name) THEN <<>>
  ELSE <<GetKey(config.params[1], name)>>

\* ------------------------------------------------------------------------
\* The trie.  A node is identified by the sequence of child keys leading to
\* it from the root, and the trie is the function from these identities to
\* the nodes' own fields: the children of a node p are the nodes Append(p, k).
\* ------------------------------------------------------------------------
ParamKey == <<"$param">>

NewNode(paramName) ==
  [paramName |-> paramName, paramParser |-> <<>>, queryParser |-> <<>>,
   meta |-> Null, isTerminal |-> FALSE]

NodeRef(at) == [kind |-> "node", at |-> at]
ForeignRef == [kind |-> "foreign", at |-> <<>>]
UndefinedRef == [kind |-> "undefined", at |-> <<>>]

\* node.children[key]: an own child, else an inherited property of the
\* children object (a function of Object.prototype, not a trie node)
ChildRef(tree, at, key) ==
  IF Append(at, key) \in DOMAIN tree THEN NodeRef(Append(at, key))
  ELSE IF key \in ObjectPrototypeKeys THEN ForeignRef
  ELSE UndefinedRef

\* a variant of MarkTerminal after which the node's parent is no longer terminal
MarkTerminalClearingParent(tree, node, config) ==
  IF node.kind # "node" THEN tree
  ELSE LET marked == [tree EXCEPT ![node.at] =
                        [@ EXCEPT !.isTerminal = TRUE,
                                  !.queryParser = IF config.query # <<>>
                                                    THEN <<createObjectParser(config.query[1])>>
                                                    ELSE @,
                                  !.meta = IF Truthy(config.meta) THEN config.meta ELSE @]]
       IN IF node.at = <<>> THEN marked
          ELSE [marked EXCEPT ![SubSeq(node.at, 1, Len(node.at) - 1)].isTerminal = FALSE]

\* a variant of MarkTerminal that also marks the node's parent
MarkTerminalWithParent(tree, node, config) ==
  IF node.kind # "node" THEN tree
  ELSE LET marked == [tree EXCEPT ![node.at] =
                        [@ EXCEPT !.isTerminal = TRUE,
                                  !.queryParser = IF config.query # <<>>
                                                    THEN <<createObjectParser(config.query[1])>>
                                                    ELSE @,
                                  !.meta = IF Truthy(config.meta) THEN config.meta ELSE @]]
       IN IF node.at = <<>> THEN marked
          ELSE [marked EXCEPT ![SubSeq(node.at, 1, Len(node.at) - 1)].isTerminal = TRUE]

\* the writes after the walk of one definition: isTerminal, queryParser, meta
MarkTerminal(tree, node, config) ==
  IF node.kind # "node" THEN tree
  ELSE [tree EXCEPT ![node.at] =
          [@ EXCEPT !.isTerminal = TRUE,
                    !.queryParser = IF config.query # <<>>
                                      THEN <<createObjectParser(config.query[1])>>
                                      ELSE @,
                    !.meta = IF Truthy(config.meta) THEN config.meta ELSE @]]

RECURSIVE WalkSegments(_, _, _, _, _)
\* the loop over the segments of one definition
WalkSegments(tree, node, segments, j, config) ==
  IF j > Len(segments) THEN [ok |-> TRUE, tree |-> tree, node |-> node]
  ELSE IF node.kind = "foreign" THEN [ok |-> FALSE, tree |-> tree, node |-> node]
  ELSE
    LET seg == segments[j]
        isParam == StartsWithColon(seg)
        key == IF isParam THEN ParamKey ELSE seg
        paramName == IF isParam THEN JStr(Tail(seg)) ELSE Null
        existing == ChildRef(tree, node.at, key)
        created == existing.kind = "undefined"
        next == IF created THEN NodeRef(Append(node.at, key)) ELSE existing
        tree1 == IF created THEN tree @@ (next.at :> NewNode(paramName)) ELSE tree
        parser == IF isParam THEN ParamsGet(config, Tail(seg)) ELSE <<>>
        tree2 == IF isParam /\ parser # <<>>
                   THEN [tree1 EXCEPT ![next.at].paramParser = parser]
                   ELSE tree1
    IN WalkSegments(tree2, next, segments, j + 1, config)

RootNode == NodeRef(<<>>)

RECURSIVE BuildFrom(_, _, _)
\* the loop over the definitions
BuildFrom(tree, definitions, i) ==
  IF i > Len(definitions) THEN [ok |-> TRUE, tree |-> tree]
  ELSE
    LET config == definitions[i]
        segments == PathSegments(config.path)
    IN IF Len(segments) = 0
         THEN BuildFrom(MarkTerminal(tree, RootNode, config), definitions, i + 1)
         ELSE LET w == WalkSegments(tree, RootNode, segments, 1, config)
              IN IF ~w.ok THEN [ok |-> FALSE, tree |-> w.tree]
                 ELSE BuildFrom(MarkTerminal(w.tree, w.node, config), definitions, i + 1)

\* buildTree: ok is FALSE when the construction throws (a TypeError)
buildTree(definitions) == BuildFrom((<<>> :> NewNode(Null)), definitions, 1)

\* ------------------------------------------------------------------------
\* The named registry and the all-routes list
\* ------------------------------------------------------------------------
\* obj[key] = val on an object given by its entries
SetKey(e, key, val) ==
  IF HasKey(e, key)
    THEN [i \in 1..Len(e) |-> IF e[i].key = key THEN [key |-> key, val |-> val] ELSE e[i]]
    ELSE Append(e, [key |-> key, val |-> val])

RECURSIVE ParamNamesOf(_, _)
ParamNamesOf(segments, j) ==
  IF j > Len(segments) THEN <<>>
  ELSE IF StartsWithColon(segments[j])
    THEN <<Tail(segments[j])>> \o ParamNamesOf(segments, j + 1)
    ELSE ParamNamesOf(segments, j + 1)

RECURSIVE ParamParsersOf(_, _, _, _)
\* paramParsers[name] = def.params[name] for each parameter that declares one
ParamParsersOf(def, names, j, acc) ==
  IF j > Len(names) THEN acc
  ELSE LET p == ParamsGet(def, names[j])
       IN ParamParsersOf(def, names, j + 1,
                         IF p = <<>> THEN acc ELSE SetKey(acc, names[j], p[1]))

NamedRoute(def, options) ==
  LET paramNames == ParamNamesOf(PathSegments(def.path), 1)
      paramParsers == ParamParsersOf(def, paramNames, 1, <<>>)
  IN [pattern |-> def.path,
      paramNames |-> paramNames,
      paramParser |-> IF Len(paramParsers) > 0 THEN <<createObjectParser(paramParsers)>> ELSE <<>>,
      queryParser |-> IF def.query # <<>> THEN <<createObjectParser(def.query[1])>> ELSE <<>>,
      meta |-> IF def.meta.k = "undefined" THEN Null ELSE def.meta,
      options |-> options]

IsNamed(def) == ~def.isString /\ Truthy(def.name)

\* buildNamedRoutes: the Map as a function from the names set to their entries;
\* a later definition of a name replaces the earlier one
buildNamedRoutes(definitions, options) ==
  LET names == {definitions[i].name.s : i \in {j \in 1..Len(definitions) : IsNamed(definitions[j])}}
      last(n) == CHOOSE i \in 1..Len(definitions) :
                   /\ IsNamed(definitions[i]) /\ definitions[i].name.s = n
                   /\ \A h \in (i + 1)..Len(definitions) :
                        ~(IsNamed(definitions[h]) /\ definitions[h].name.s = n)
  IN [n \in names |-> NamedRoute(definitions[last(n)], options)]

RouteInfo(def) ==
  IF def.isString
    THEN [pattern |-> def.path, isConfig |-> FALSE, name |-> Undefined, meta |-> Undefined]
    ELSE [pattern |-> def.path, isConfig |-> TRUE, name |-> def.name, meta |-> def.meta]

buildAllRoutes(definitions) == [i \in 1..Len(definitions) |-> RouteInfo(definitions[i])]

\* ------------------------------------------------------------------------
\* URL serialization
\* ------------------------------------------------------------------------
\* application/x-www-form-urlencoded, token by token
EncodeToken(c) ==
  CASE c = " " -> "+"
    [] c = "/" -> "%2F"
    [] c = ":" -> "%3A"
    [] c = "?" -> "%3F"
    [] c = "=" -> "%3D"
    [] c = "&" -> "%26"
    [] c = "[object Object]" -> "%5Bobject+Object%5D"
    [] OTHER -> c
Encode(s) == [i \in 1..Len(s) |-> EncodeToken(s[i])]

\* a variant of QueryString that lists the entries last to first
QueryStringBackwards(e) ==
  Join([i \in 1..Len(e) |->
          Encode(e[Len(e) + 1 - i].key) \o <<"=">> \o Encode(String(e[Len(e) + 1 - i].val))], "&")

\* new URLSearchParams(Object.entries(query).map(([k, v]) => [k, String(v)])).toString()
QueryString(e) ==
  Join([i \in 1..Len(e) |-> Encode(e[i].key) \o <<"=">> \o Encode(String(e[i].val))], "&")

StaticSegment(name) == [type |-> "static", name |-> JStr(name), value |-> <<>>]
ParamSegment(name, value) == [type |-> "param", name |-> name, value |-> value]

SegmentValue(s) == IF s.type = "static" THEN s.name.s ELSE s.value
SegmentPattern(s) == IF s.type = "static" THEN s.name.s ELSE <<":">> \o String(s.name)

\* the query suffix both buildPath and getRouteByName append
HasQueryKeys(query) == query.k = "obj" /\ Len(query.e) > 0

\* a variant of buildPath that writes "?" for every record
buildPathAnyRecord(segments, query, trailingSlash) ==
  LET path == <<"/">> \o Join([i \in 1..Len(segments) |-> SegmentValue(segments[i])], "/")
                \o (IF trailingSlash THEN <<"/">> ELSE <<>>)
  IN IF query.k # "obj" THEN path ELSE path \o <<"?">> \o QueryString(query.e)

buildPath(segments, query, trailingSlash) ==
  LET path == <<"/">> \o Join([i \in 1..Len(segments) |-> SegmentValue(segments[i])], "/")
                \o (IF trailingSlash THEN <<"/">> ELSE <<>>)
  IN IF ~HasQueryKeys(query) THEN path ELSE path \o <<"?">> \o QueryString(query.e)

\* a variant of buildPattern that emits the values
buildPatternOfValues(segments, trailingSlash) ==
  <<"/">> \o Join([i \in 1..Len(segments) |-> SegmentValue(segments[i])], "/")
    \o (IF trailingSlash THEN <<"/">> ELSE <<>>)

buildPattern(segments, trailingSlash) ==
  <<"/">> \o Join([i \in 1..Len(segments) |-> SegmentPattern(segments[i])], "/")
    \o (IF trailingSlash THEN <<"/">> ELSE <<>>)

\* ------------------------------------------------------------------------
\* Navigation objects
\* ------------------------------------------------------------------------
\* kind: "root" (the table), "index" (routes.$index), "proxy" (createProxy),
\* "node" (createRouteNode), "named" (the result of getRouteByName).
\* segments, query, at (the trie node) and meta are the values the closure holds.
RootNav ==
  [kind |-> "root", segments |-> <<>>, query |-> Undefined, at |-> <<>>, meta |-> Null,
   path |-> <<>>, pattern |-> <<>>]
IndexNav == [RootNav EXCEPT !.kind = "index"]

\* createRouteNode(segments, query, meta, trailingSlash)
createRouteNode(segments, query, meta) ==
  [kind |-> "node", segments |-> segments, query |-> query, at |-> <<>>, meta |-> meta,
   path |-> <<>>, pattern |-> <<>>]

\* createProxy(segments, query, tree, options, meta): reading tree.children of
\* an object that is not a trie node throws
createProxy(segments, query, node, meta) ==
  IF node.kind = "foreign"
    THEN Throw("TypeError", <<"Cannot read properties of undefined (reading '$param')">>)
    ELSE Ok([kind |-> "proxy", segments |-> segments, query |-> query, at |-> node.at,
             meta |-> meta, path |-> <<>>, pattern |-> <<>>])

\* the properties the get traps answer themselves
ProxyMembers ==
  {<<"__segments">>, <<"__query">>, <<"getMeta">>, <<"toString">>, <<"toPattern">>, <<"then">>}
RootMembers == ProxyMembers \cup {<<"$index">>}

\* tree.children[prop] ?? paramNode?.children[prop]
ChildOrParamChild(tree, at, prop) ==
  LET own == ChildRef(tree, at, prop)
      paramNode == ChildRef(tree, at, ParamKey)
  IN IF own.kind # "undefined" THEN own
     ELSE IF paramNode.kind = "undefined" THEN UndefinedRef
     ELSE ChildRef(tree, paramNode.at, prop)

\* a variant of GetChild whose successor keeps the query of the object descended from
GetChildKeepingQuery(tree, nav, prop) ==
  LET child == ChildOrParamChild(tree, nav.at, prop)
  IN IF child.kind = "undefined" THEN [found |-> FALSE, r |-> Ok(Undefined)]
     ELSE [found |-> TRUE,
           r |-> createProxy(Append(nav.segments, StaticSegment(prop)), nav.query, child,
                             IF child.kind = "node" THEN tree[child.at].meta ELSE Undefined)]

\* the get trap of the table and of a proxy, for a property that is not one of
\* the members: the child's navigation object, or undefined.  val is the
\* navigation object when found is TRUE.
GetChild(tree, nav, prop) ==
  LET child == ChildOrParamChild(tree, nav.at, prop)
  IN IF child.kind = "undefined" THEN [found |-> FALSE, r |-> Ok(Undefined)]
     ELSE [found |-> TRUE,
           r |-> createProxy(Append(nav.segments, StaticSegment(prop)), Undefined, child,
                             IF child.kind = "node" THEN tree[child.at].meta ELSE Undefined)]

InvalidArguments == Throw("Error", <<"Invalid arguments">>)

\* createIndexNode(query)
createIndexNode(tree, query) ==
  LET validated == IF Truthy(query) /\ tree[<<>>].queryParser # <<>>
                     THEN runParser(tree[<<>>].queryParser[1], query)
                     ELSE Ok(query)
  IN IF ~validated.ok THEN validated
     ELSE Ok(createRouteNode(<<>>, validated.val, tree[<<>>].meta))

\* a variant of CallWithValue that never runs the parameter's validator
CallWithValueUnparsed(tree, nav, valueOrQuery, maybeQuery) ==
  LET paramNode == ChildRef(tree, nav.at, ParamKey)
      node == tree[paramNode.at]
      validated == IF Truthy(maybeQuery) /\ node.queryParser # <<>>
                     THEN runParser(node.queryParser[1], maybeQuery)
                     ELSE Ok(maybeQuery)
  IN IF ~validated.ok THEN validated
     ELSE createProxy(Append(nav.segments, ParamSegment(node.paramName, String(valueOrQuery))),
                      validated.val, paramNode, node.meta)

\* a variant of CallWithValue that keeps the raw value when the validator rejects it
CallWithValueLenient(tree, nav, valueOrQuery, maybeQuery) ==
  LET paramNode == ChildRef(tree, nav.at, ParamKey)
      node == tree[paramNode.at]
      parsed == IF node.paramParser # <<>>
                  THEN runParser(node.paramParser[1], valueOrQuery)
                  ELSE Ok(valueOrQuery)
      value == IF parsed.ok THEN parsed ELSE Ok(valueOrQuery)
      validated == IF Truthy(maybeQuery) /\ node.queryParser # <<>>
                     THEN runParser(node.queryParser[1], maybeQuery)
                     ELSE Ok(maybeQuery)
  IN IF ~validated.ok THEN validated
     ELSE createProxy(Append(nav.segments, ParamSegment(node.paramName, String(value.val))),
                      validated.val, paramNode, node.meta)

\* the scalar branch of fn, shared by the table and the proxies
CallWithValue(tree, nav, valueOrQuery, maybeQuery) ==
  LET paramNode == ChildRef(tree, nav.at, ParamKey)
      node == tree[paramNode.at]
      value == IF node.paramParser # <<>>
                 THEN runParser(node.paramParser[1], valueOrQuery)
                 ELSE Ok(valueOrQuery)
      validated == IF Truthy(maybeQuery) /\ node.queryParser # <<>>
                     THEN runParser(node.queryParser[1], maybeQuery)
                     ELSE Ok(maybeQuery)
  IN IF ~value.ok THEN value
     ELSE IF ~validated.ok THEN validated
     ELSE createProxy(Append(nav.segments, ParamSegment(node.paramName, String(value.val))),
                      validated.val, paramNode, node.meta)

HasParamNode(tree, nav) == ChildRef(tree, nav.at, ParamKey).kind = "node"
IsScalar(v) == TypeOf(v) = "string" \/ TypeOf(v) = "number"

\* fn of createRootProxy
RootCall(tree, nav, valueOrQuery, maybeQuery) ==
  IF TypeOf(valueOrQuery) = "object" THEN createIndexNode(tree, valueOrQuery)
  ELSE IF HasParamNode(tree, nav) /\ IsScalar(valueOrQuery)
    THEN CallWithValue(tree, nav, valueOrQuery, maybeQuery)
  ELSE InvalidArguments

\* a variant of ProxyCall whose query-only call adds to the query held so far
ProxyCallMerging(tree, nav, valueOrQuery, maybeQuery) ==
  IF TypeOf(valueOrQuery) = "object"
    THEN LET validated == IF tree[nav.at].queryParser # <<>>
                            THEN runParser(tree[nav.at].queryParser[1], valueOrQuery)
                            ELSE Ok(valueOrQuery)
         IN IF ~validated.ok THEN validated
            ELSE createProxy(nav.segments,
                             IF nav.query.k = "obj" /\ validated.val.k = "obj"
                               THEN Obj(nav.query.e \o validated.val.e)
                               ELSE validated.val,
                             NodeRef(nav.at), tree[nav.at].meta)
  ELSE IF HasParamNode(tree, nav) /\ IsScalar(valueOrQuery)
    THEN CallWithValue(tree, nav, valueOrQuery, maybeQuery)
  ELSE InvalidArguments

\* fn of createProxy
ProxyCall(tree, nav, valueOrQuery, maybeQuery) ==
  IF TypeOf(valueOrQuery) = "object"
    THEN LET validated == IF tree[nav.at].queryParser # <<>>
                            THEN runParser(tree[nav.at].queryParser[1], valueOrQuery)
                            ELSE Ok(valueOrQuery)
         IN IF ~validated.ok THEN validated
            ELSE createProxy(nav.segments, validated.val, NodeRef(nav.at), tree[nav.at].meta)
  ELSE IF HasParamNode(tree, nav) /\ IsScalar(valueOrQuery)
    THEN CallWithValue(tree, nav, valueOrQuery, maybeQuery)
  ELSE InvalidArguments

\* calling a navigation object; only the table, $index and the proxies are callable
CallNav(tree, nav, valueOrQuery, maybeQuery) ==
  CASE nav.kind = "root" -> RootCall(tree, nav, valueOrQuery, maybeQuery)
    [] nav.kind = "index" -> createIndexNode(tree, valueOrQuery)
    [] nav.kind = "proxy" -> ProxyCall(tree, nav, valueOrQuery, maybeQuery)
    [] OTHER -> Throw("TypeError", <<"not a function">>)

\* ------------------------------------------------------------------------
\* Rendering
\* ------------------------------------------------------------------------
UseIndexMsg(member) ==
  <<"Cannot call ", member, "() on routes directly. Use routes.$index for the root route.">>
RootNotDefinedMsg ==
  <<"\"", "/", "\" is not a defined route", ". Define it explicitly: createRoutes(['/', ...])">>
NotARouteMsg(pattern) ==
  <<"\"">> \o pattern
    \o <<"\" is not a defined route", ". Did you forget to add it to createRoutes()?">>

\* a variant of RootToString that renders the root route
RootToStringAsRoute(tree, trailingSlash) ==
  IF ~tree[<<>>].isTerminal THEN Throw("Error", RootNotDefinedMsg)
  ELSE Ok(JStr(<<"/">>))

\* toString() and toPattern() of the table itself
RootToString(tree, trailingSlash) == Throw("Error", UseIndexMsg("toString"))
RootToPattern(tree, trailingSlash) == Throw("Error", UseIndexMsg("toPattern"))

\* toString() and toPattern() of routes.$index
IndexToString(tree, trailingSlash) ==
  IF ~tree[<<>>].isTerminal THEN Throw("Error", RootNotDefinedMsg)
  ELSE Ok(JStr(buildPath(<<>>, Undefined, trailingSlash)))
IndexToPattern(tree, trailingSlash) ==
  IF ~tree[<<>>].isTerminal THEN Throw("Error", RootNotDefinedMsg)
  ELSE Ok(JStr(<<"/">>))

\* toString() and toPattern() of the object createRouteNode returns
RouteNodeToString(tree, nav, trailingSlash) ==
  Ok(JStr(buildPath(nav.segments, nav.query, trailingSlash)))
RouteNodeToPattern(tree, nav, trailingSlash) ==
  Ok(JStr(buildPattern(nav.segments, trailingSlash)))

\* toString() and toPattern() of a proxy
ProxyToString(tree, nav, trailingSlash) ==
  IF ~tree[nav.at].isTerminal
    THEN Throw("Error", NotARouteMsg(buildPattern(nav.segments, FALSE)))
    ELSE Ok(JStr(buildPath(nav.segments, nav.query, trailingSlash)))
ProxyToPattern(tree, nav, trailingSlash) ==
  IF ~tree[nav.at].isTerminal
    THEN Throw("Error", NotARouteMsg(buildPattern(nav.segments, FALSE)))
    ELSE Ok(JStr(buildPattern(nav.segments, trailingSlash)))

\* toString() and toPattern() of the result of getRouteByName
NamedToString(nav) == Ok(JStr(nav.path))
NamedToPattern(nav) == Ok(JStr(nav.pattern))

ToStringOf(tree, nav, trailingSlash) ==
  CASE nav.kind = "root" -> RootToString(tree, trailingSlash)
    [] nav.kind = "index" -> IndexToString(tree, trailingSlash)
    [] nav.kind = "node" -> RouteNodeToString(tree, nav, trailingSlash)
    [] nav.kind = "proxy" -> ProxyToString(tree, nav, trailingSlash)
    [] OTHER -> NamedToString(nav)

ToPatternOf(tree, nav, trailingSlash) ==
  CASE nav.kind = "root" -> RootToPattern(tree, trailingSlash)
    [] nav.kind = "index" -> IndexToPattern(tree, trailingSlash)
    [] nav.kind = "node" -> RouteNodeToPattern(tree, nav, trailingSlash)
    [] nav.kind = "proxy" -> ProxyToPattern(tree, nav, trailingSlash)
    [] OTHER -> NamedToPattern(nav)

\* a ?? b
Coalesce(a, b) == IF a.k = "undefined" \/ a.k = "null" THEN b ELSE a

GetMetaOf(tree, nav) ==
  CASE nav.kind = "root" -> Ok(Coalesce(tree[<<>>].meta, Undefined))
    [] nav.kind = "index" -> Ok(Coalesce(tree[<<>>].meta, Undefined))
    [] nav.kind = "proxy" -> Ok(Coalesce(Coalesce(nav.meta, tree[nav.at].meta), Undefined))
    [] OTHER -> Ok(Coalesce(nav.meta, Undefined))

\* ------------------------------------------------------------------------
\* Construction and the standalone functions
\* ------------------------------------------------------------------------
\* createRoutes: ok is FALSE when buildTree throws
createRoutes(defs, opts) ==
  LET built == buildTree(defs)
  IN [ok |-> built.ok,
      tree |-> built.tree,
      namedRoutes |-> buildNamedRoutes(defs, opts),
      allRoutes |-> buildAllRoutes(defs)]

\* the attributes Object.defineProperty gives the metadata slot of the table:
\* writable: false is written, configurable is left to its default
MetadataSlot == [writable |-> FALSE, configurable |-> FALSE, enumerable |-> FALSE]

\* what the table's get trap returns for a symbol that is not Symbol.toStringTag
RootGetSymbol(stored) == Undefined

ProxyInvariantMsg ==
  <<"'get' on proxy: property 'Symbol(routish.metadata)' is a read-only and non-configurable data property on the proxy target but the proxy did not return its actual value">>

\* routes[ROUTE_METADATA]: the trap's answer, which a Proxy must not let differ
\* from a non-writable, non-configurable own data property of its target
ReadMetadata(table) ==
  LET stored == [k |-> "metadata", namedRoutes |-> table.namedRoutes,
                 allRoutes |-> table.allRoutes]
      trapResult == RootGetSymbol(stored)
  IN IF ~MetadataSlot.configurable /\ ~MetadataSlot.writable /\ trapResult # stored
       THEN Throw("TypeError", ProxyInvariantMsg)
       ELSE [ok |-> TRUE, val |-> trapResult, cls |-> "", err |-> <<>>]

\* s.replace(pat, rep): the first occurrence
Replace(s, pat, rep) ==
  LET hits == {i \in 1..(Len(s) - Len(pat) + 1) : SubSeq(s, i, i + Len(pat) - 1) = pat}
  IN IF hits = {} THEN s
     ELSE LET i == CHOOSE h \in hits : \A g \in hits : h <= g
          IN SubSeq(s, 1, i - 1) \o rep \o SubSeq(s, i + Len(pat), Len(s))

RECURSIVE Substitute(_, _, _, _)
\* for (const p of route.paramNames) path = path.replace(`:${p}`, String(resolvedParams[p]))
Substitute(path, paramNames, j, resolvedParams) ==
  IF j > Len(paramNames) THEN path
  ELSE Substitute(Replace(path, <<":">> \o paramNames[j],
                          String(GetKey(resolvedParams.e, paramNames[j]))),
                  paramNames, j + 1, resolvedParams)

RouteNotFoundMsg(name) == <<"Route \"">> \o name \o <<"\" not found">>

\* the body of getRouteByName once the metadata is read
LookupByName(metadata, name, params, query) ==
  IF metadata.k = "undefined"
    THEN Throw("TypeError", <<"Cannot read properties of undefined (reading 'namedRoutes')">>)
  ELSE IF name \notin DOMAIN metadata.namedRoutes THEN Throw("Error", RouteNotFoundMsg(name))
  ELSE
    LET route == metadata.namedRoutes[name]
        given == Coalesce(params, Obj(<<>>))
        resolvedParams == IF route.paramParser # <<>>
                            THEN runParser(route.paramParser[1], given)
                            ELSE Ok(given)
        resolvedQuery == IF Truthy(query) /\ route.queryParser # <<>>
                           THEN runParser(route.queryParser[1], query)
                           ELSE Ok(query)
    IN IF ~resolvedParams.ok THEN resolvedParams
       ELSE IF ~resolvedQuery.ok THEN resolvedQuery
       ELSE
         LET substituted == Substitute(route.pattern, route.paramNames, 1, resolvedParams.val)
             slashed == IF route.options.trailingSlash /\ ~EndsWithSlash(substituted)
                          THEN substituted \o <<"/">>
                          ELSE substituted
             path == IF HasQueryKeys(resolvedQuery.val)
                       THEN slashed \o <<"?">> \o QueryString(resolvedQuery.val.e)
                       ELSE slashed
         IN Ok([kind |-> "named", segments |-> <<>>, query |-> resolvedQuery.val,
                at |-> <<>>, meta |-> route.meta, path |-> path, pattern |-> route.pattern])

getRouteByName(table, name, params, query) ==
  LET metadata == ReadMetadata(table)
  IN IF ~metadata.ok THEN metadata ELSE LookupByName(metadata.val, name, params, query)

getAllRoutes(table) ==
  LET metadata == ReadMetadata(table)
  IN IF ~metadata.ok THEN metadata
     ELSE IF metadata.val.k = "undefined"
       THEN Throw("TypeError", <<"Cannot read properties of undefined (reading 'allRoutes')">>)
     ELSE Ok([k |-> "list", items |-> metadata.val.allRoutes])

\* ------------------------------------------------------------------------
\* The definitions, options and inputs explored
\* ------------------------------------------------------------------------
VDouble == Validator("double", "none", "none", "none")
VNumber == Validator("number", "none", "none", "none")
VString == Validator("none", "string", "none", "none")

Entry(key, val) == [key |-> key, val |-> val]
MetaAdmin == Obj(<<Entry(<<"requiresAuth">>, Num(1))>>)
MetaHome == Obj(<<Entry(<<"isHome">>, Num(1))>>)

Pool ==
  { RouteString(<<"/", "a">>),
    RouteString(<<"/", "a", "/">>),
    RouteConfig(<<"/", "a", "/", ":", "x">>,
                << <<Entry(<<"x">>, VDouble)>> >>,
                << <<Entry(<<"q">>, VString), Entry(<<"page">>, VNumber)>> >>,
                JStr(<<"user">>), MetaAdmin),
    RouteString(<<"/", "a", "/", ":", "y", "/", "b">>),
    RouteConfig(<<"/">>, <<>>, << <<Entry(<<"page">>, VNumber)>> >>,
                JStr(<<"home">>), MetaHome),
    RouteConfig(<<"/", ":", "x">>, << <<Entry(<<"x">>, VNumber)>> >>, <<>>,
                JStr(<<"user">>), Undefined),
    RouteString(<<"/", "constructor">>),
    RouteString(<<"/", "toString", "/", "a">>),
    RouteString(<<"/", "$param">>),
    RouteConfig(<<"/", ":", "x", "/", ":", "t">>, << <<Entry(<<"x">>, VNumber)>> >>, <<>>,
                JStr(<<"pair">>), Undefined) }

\* the largest number of definitions of a table
MaxDefs == 2

Tables == UNION {[1..n -> Pool] : n \in 0..MaxDefs}

\* property names read from a navigation object
Props ==
  {<<"a">>, <<"b">>, <<"constructor">>, <<"toString">>, <<"$param">>, <<"$index">>, <<"missing">>}

\* the child keys of a trie: the names its get traps can find
ChildKeys(tree) == {at[Len(at)] : at \in DOMAIN tree \ {<<>>}}

\* scalar values passed to a navigation object
Values == {Num(5), JStr(<<"v">>)}

\* query arguments: none, an empty record, and records with keys
Queries ==
  { Undefined,
    Obj(<<>>),
    Obj(<<Entry(<<"page">>, Num(5)), Entry(<<"q">>, JStr(<<"h", " ", "i">>))>>),
    Obj(<<Entry(<<"z">>, JStr(<<"v">>))>>) }

\* params arguments of a named lookup
ParamRecords == {Undefined, Obj(<<Entry(<<"x">>, Num(5)), Entry(<<"t">>, JStr(<<"v">>))>>)}

\* query arguments of a named lookup
LookupQueries == {q \in Queries : q.k = "undefined" \/ (q.k = "obj" /\ Len(q.e) > 1)}

RouteNames == {<<"user">>, <<"pair">>, <<"unknown">>}

\* ------------------------------------------------------------------------
\* The state machine
\* ------------------------------------------------------------------------
VARIABLES
  definitions,  \* the definitions given to createRoutes
  options,      \* the options given to createRoutes
  routes,       \* what createRoutes built: the trie, the registry, the list
  nav,          \* the navigation object the caller holds
  trail,        \* the raw arguments of the descents that led to nav
  given,        \* the query argument of the call that made nav, as the caller passed it;
                \* under ParserSpec, the validator and the raw value given to runParser
  out           \* the last operation, its arguments and its outcome

vars == <<definitions, options, routes, nav, trail, given, out>>

Outcome(op, a1, a2, a3, r) ==
  [op |-> op, a1 |-> a1, a2 |-> a2, a3 |-> a3,
   ok |-> r.ok, val |-> r.val, cls |-> r.cls, err |-> r.err]
\* the outcome of an operation that returned a navigation object or a member
Returned == Ok(Undefined)

Init ==
  /\ definitions \in Tables
  /\ options \in [trailingSlash : BOOLEAN]
  /\ routes = createRoutes(definitions, options)
  /\ nav = RootNav
  /\ trail = <<>>
  /\ given = Undefined
  /\ out = Outcome("createRoutes", Undefined, Undefined, Undefined,
                   IF routes.ok THEN Returned
                   ELSE Throw("TypeError", <<"Cannot read properties of undefined">>))

Frame == UNCHANGED <<definitions, options, routes>>

\* The caller holds a navigation object: the table was built, and the last
\* step of the chain returned one.  A chain ends at a render, a member, an
\* absent child or a thrown error; every object is immutable, so what can be
\* done with nav is the same whatever was observed on it before.
Holding ==
  /\ routes.ok
  /\ out.ok
  /\ out.op \in {"createRoutes", "get", "callValue", "callQuery"}

\* Rendering and getMeta leave the caller with the same object, which can be
\* observed again.
Observing ==
  /\ routes.ok
  /\ (Holding \/ out.op \in {"toString", "toPattern", "getMeta"})

\* nav[prop]: $index, a member, a child or undefined
Get ==
  \E prop \in Props \cup ChildKeys(routes.tree) :
    /\ Holding
    /\ nav.kind \in {"root", "proxy"}
    /\ Frame
    /\ IF nav.kind = "root" /\ prop = <<"$index">>
         THEN /\ nav' = IndexNav
              /\ trail' = <<>>
              /\ given' = Undefined
              /\ out' = Outcome("get", JStr(prop), Undefined, Undefined, Returned)
         ELSE IF prop \in (IF nav.kind = "root" THEN RootMembers ELSE ProxyMembers)
           THEN /\ UNCHANGED <<nav, trail, given>>
                /\ out' = Outcome("member", JStr(prop), Undefined, Undefined, Returned)
         ELSE LET g == GetChild(routes.tree, nav, prop)
              IN IF g.found /\ g.r.ok
                   THEN /\ nav' = g.r.val
                        /\ trail' = Append(trail, [type |-> "static", raw |-> JStr(prop)])
                        /\ given' = Undefined
                        /\ out' = Outcome("get", JStr(prop), Undefined, Undefined, Returned)
                   ELSE /\ UNCHANGED <<nav, trail, given>>
                        /\ out' = Outcome(IF g.found THEN "get" ELSE "absent",
                                          JStr(prop), Undefined, Undefined, g.r)

\* nav(value, query?): a value call
CallValue ==
  \E value \in Values, query \in Queries :
    /\ Holding
    /\ nav.kind \in {"root", "proxy"}
    /\ Frame
    /\ LET r == CallNav(routes.tree, nav, value, query)
       IN IF r.ok
            THEN /\ nav' = r.val
                 /\ trail' = Append(trail, [type |-> "param", raw |-> value])
                 /\ given' = query
                 /\ out' = Outcome("callValue", value, query, Undefined, Returned)
            ELSE /\ UNCHANGED <<nav, trail, given>>
                 /\ out' = Outcome("callValue", value, query, Undefined, r)

\* nav(query) and nav(): a query-only call
CallQuery ==
  \E query \in Queries :
    /\ Holding
    /\ nav.kind \in {"root", "index", "proxy"}
    /\ Frame
    /\ LET r == CallNav(routes.tree, nav, query, Undefined)
       IN IF r.ok
            THEN /\ nav' = r.val
                 /\ UNCHANGED trail
                 /\ given' = query
                 /\ out' = Outcome("callQuery", query, Undefined, Undefined, Returned)
            ELSE /\ UNCHANGED <<nav, trail, given>>
                 /\ out' = Outcome("callQuery", query, Undefined, Undefined, r)

\* a variant of toString that empties the query of the object it renders
toStringConsuming ==
  /\ Observing
  /\ Frame
  /\ UNCHANGED <<trail, given>>
  /\ nav' = [nav EXCEPT !.query = Undefined]
  /\ out' = Outcome("toString", Undefined, Undefined, Undefined,
                    ToStringOf(routes.tree, nav, options.trailingSlash))

toString ==
  /\ Observing
  /\ Frame
  /\ UNCHANGED <<nav, trail, given>>
  /\ out' = Outcome("toString", Undefined, Undefined, Undefined,
                    ToStringOf(routes.tree, nav, options.trailingSlash))

toPattern ==
  /\ Observing
  /\ Frame
  /\ UNCHANGED <<nav, trail, given>>
  /\ out' = Outcome("toPattern", Undefined, Undefined, Undefined,
                    ToPatternOf(routes.tree, nav, options.trailingSlash))

getMeta ==
  /\ Observing
  /\ Frame
  /\ UNCHANGED <<nav, trail, given>>
  /\ out' = Outcome("getMeta", Undefined, Undefined, Undefined, GetMetaOf(routes.tree, nav))

GetRouteByName ==
  \E name \in RouteNames, params \in ParamRecords, query \in LookupQueries :
    /\ Holding
    /\ Frame
    /\ LET r == getRouteByName(routes, name, params, query)
       IN IF r.ok
            THEN /\ nav' = r.val
                 /\ trail' = <<>>
                 /\ given' = query
                 /\ out' = Outcome("getRouteByName", JStr(name), params, query, Returned)
            ELSE /\ UNCHANGED <<nav, trail, given>>
                 /\ out' = Outcome("getRouteByName", JStr(name), params, query, r)

GetAllRoutes ==
  /\ Holding
  /\ Frame
  /\ UNCHANGED <<nav, trail, given>>
  /\ out' = Outcome("getAllRoutes", Undefined, Undefined, Undefined, getAllRoutes(routes))

Next ==
  \/ Get
  \/ CallValue
  \/ CallQuery
  \/ toString
  \/ toPattern
  \/ getMeta
  \/ GetRouteByName
  \/ GetAllRoutes

Spec == Init /\ [][Next]_vars

\* ------------------------------------------------------------------------
\* The same operations on tables whose definitions end at one node (the same
\* path in several spellings, with and without metadata and query validators)
\* or have a segment named like a member of the navigation objects
\* ------------------------------------------------------------------------
WidePool ==
  { RouteConfig(<<"/", "a">>, <<>>, << <<Entry(<<"q">>, VString)>> >>, Undefined, MetaAdmin),
    RouteString(<<"/", "a", "/">>),
    RouteConfig(<<"/", "/", "a">>, <<>>, << <<Entry(<<"page">>, VNumber)>> >>,
                Undefined, MetaHome),
    RouteConfig(<<"/">>, <<>>, << <<Entry(<<"page">>, VNumber)>> >>,
                JStr(<<"home">>), MetaHome),
    RouteString(<<"/">>),
    RouteString(<<"/", "getMeta">>),
    RouteString(<<"/", "a", "/", "then">>),
    RouteString(<<"/", "$index">>) }

\* the largest number of definitions of such a table
MaxWideDefs == 2

WideTables == UNION {[1..n -> WidePool] : n \in 0..MaxWideDefs}

WideInit ==
  /\ definitions \in WideTables
  /\ options \in [trailingSlash : BOOLEAN]
  /\ routes = createRoutes(definitions, options)
  /\ nav = RootNav
  /\ trail = <<>>
  /\ given = Undefined
  /\ out = Outcome("createRoutes", Undefined, Undefined, Undefined,
                   IF routes.ok THEN Returned
                   ELSE Throw("TypeError", <<"Cannot read properties of undefined">>))

WideSpec == WideInit /\ [][Next]_vars

\* ------------------------------------------------------------------------
\* The parser adapter on its own: runParser applied to a validator and a raw
\* value, with the calls it makes on the validator's members recorded
\* ------------------------------------------------------------------------
Members == {"fn", "parse", "validateSync", "decode"}

\* validators exposing any combination of members
Validators ==
  { Validator(f, p, v, d) :
      f \in {"none", "double", "number"},
      p \in {"none", "data", "string", "number"},
      v \in {"none", "data", "double"},
      d \in {"none", "data", "decRight", "decLeft", "decNumber"} }

RawValues == Values \cup {JStr(<<"5">>)}

\* validator maps: up to two fields, in either order
VDecNumber == Validator("none", "none", "none", "decNumber")
FieldKeys == {<<"a">>, <<"b">>, <<"toString">>}
FieldValidators == {VNumber, VString, VDecNumber}
ParserMaps ==
  {<<>>}
    \cup {<<Entry(k, v)>> : k \in FieldKeys, v \in FieldValidators}
    \cup {<<Entry(k1, v1), Entry(k2, v2)>> :
            k1 \in {<<"a">>}, k2 \in {<<"b">>}, v1 \in FieldValidators, v2 \in FieldValidators}
    \cup {<<Entry(<<"b">>, VString), Entry(<<"a">>, v)>> : v \in FieldValidators}

\* input records: up to two entries, in either order
RecordKeys == {<<"a">>, <<"b">>, <<"c">>}
Records ==
  {Obj(<<>>)}
    \cup {Obj(<<Entry(k, v)>>) : k \in RecordKeys, v \in Values}
    \cup UNION {{Obj(<<Entry(k1, v1), Entry(k2, Num(5))>>) :
                    k2 \in RecordKeys \ {k1}, v1 \in Values} : k1 \in RecordKeys}

\* values given as validators that are not objects
PrimitiveValidators == {JStr(<<"number">>), Num(5)}

IsCombined(parser) == ~IsPrimitive(parser) /\ parser.parse = "objectParser"

ParserInit ==
  /\ definitions = <<>>
  /\ options = [trailingSlash |-> FALSE]
  /\ routes = createRoutes(definitions, options)
  /\ nav = RootNav
  /\ trail = <<>>
  /\ given \in [parser : Validators \cup PrimitiveValidators, value : RawValues]
               \cup [parser : {createObjectParser(m) : m \in ParserMaps}, value : Records]
  /\ out = Outcome("createRoutes", Undefined, Undefined, Undefined, Returned)

\* runParser(parser, value)
RunParser ==
  /\ out.op = "createRoutes"
  /\ ~IsCombined(given.parser)
  /\ Frame
  /\ UNCHANGED <<nav, trail, given>>
  /\ out' = Outcome("runParser", given.parser, given.value,
                    Invocations(given.parser, given.value),
                    runParser(given.parser, given.value))

\* createObjectParser(parserMap).parse(obj)
ParseRecord ==
  /\ out.op = "createRoutes"
  /\ IsCombined(given.parser)
  /\ Frame
  /\ UNCHANGED <<nav, trail, given>>
  /\ out' = Outcome("parse", Obj(given.parser.map), given.value, Undefined,
                    ObjectParse(given.parser.map, given.value, 1, <<>>))

ParserNext == RunParser \/ ParseRecord

ParserSpec == ParserInit /\ [][ParserNext]_vars

\* ------------------------------------------------------------------------
\* Vocabulary of the properties
\* ------------------------------------------------------------------------
Declared == {definitions[i] : i \in 1..Len(definitions)}
Segs(d) == PathSegments(d.path)
IsStaticOnly(d) == \A j \in 1..Len(Segs(d)) : ~StartsWithColon(Segs(d)[j])
HasParams(d) == \E j \in 1..Len(Segs(d)) : StartsWithColon(Segs(d)[j])
RootDeclared == \E d \in Declared : Segs(d) = <<>>
Rendering == out.op \in {"toString", "toPattern"}

\* the declared path without its empty segments
Canonical(path) == <<"/">> \o Join(PathSegments(path), "/")

\* the chain that led to nav took the segments of d in order: each static
\* segment by its name, each parametric one by a value call
Walked(d) ==
  /\ Len(trail) = Len(Segs(d))
  /\ \A j \in 1..Len(trail) :
       IF StartsWithColon(Segs(d)[j])
         THEN trail[j].type = "param"
         ELSE trail[j].type = "static" /\ trail[j].raw.s = Segs(d)[j]

\* the child keys of the first j segments of d
KeyPath(d, j) ==
  [i \in 1..j |-> IF StartsWithColon(Segs(d)[i]) THEN ParamKey ELSE Segs(d)[i]]

\* an error message that names pattern as not a defined route
NamesPattern(err, pattern) ==
  /\ Len(err) >= Len(pattern) + 2
  /\ SubSeq(err, 1, Len(pattern) + 2) = <<"\"">> \o pattern \o <<"\" is not a defined route">>

\* the part of a URL before its "?"
PathPart(url) == Split(url, "?")[1]
\* the keys its query string lists, in order
ListedKeys(url) ==
  IF Len(Split(url, "?")) < 2 THEN <<>>
  ELSE LET pairs == Split(Split(url, "?")[2], "&")
       IN [i \in 1..Len(pairs) |-> Split(pairs[i], "=")[1]]

\* the definitions whose segments pass through the node at keys, and those
\* that end there
Through(keys) ==
  {i \in 1..Len(definitions) :
     /\ Len(Segs(definitions[i])) >= Len(keys)
     /\ KeyPath(definitions[i], Len(keys)) = keys}
EndingAt(keys) == {i \in Through(keys) : Len(Segs(definitions[i])) = Len(keys)}
Latest(S) == CHOOSE i \in S : \A h \in S : h <= i

\* the validator the definitions leave on the parametric edge into keys: that
\* of the last definition that declares one for this position
KeptValidator(keys) ==
  LET j == Len(keys)
      declaring == {i \in Through(keys) :
                      /\ StartsWithColon(Segs(definitions[i])[j])
                      /\ ParamsGet(definitions[i], Tail(Segs(definitions[i])[j])) # <<>>}
  IN IF declaring = {} THEN <<>>
     ELSE ParamsGet(definitions[Latest(declaring)],
                    Tail(Segs(definitions[Latest(declaring)])[j]))

\* the query validator map the definitions leave on the node at keys: that of
\* the last definition ending there that declares one
KeptQueryMap(keys) ==
  LET declaring == {i \in EndingAt(keys) : definitions[i].query # <<>>}
  IN IF declaring = {} THEN <<>> ELSE definitions[Latest(declaring)].query

\* ------------------------------------------------------------------------
\* C1: toString() and toPattern() of a navigation object reached by static
\* descents, value calls and query-only calls succeed only at a terminal
\* node; at a non-terminal node both fail with the error that names the
\* pattern navigated so far.  (Violated: the object a query-only call on the
\* table returns renders without the node being terminal.)
\* ------------------------------------------------------------------------
C1_RenderOnlyAtTerminal ==
  (Rendering /\ nav.kind \in {"proxy", "node"} /\ ~routes.tree[nav.at].isTerminal)
    => (~out.ok /\ NamesPattern(out.err, buildPattern(nav.segments, FALSE)))

\* ------------------------------------------------------------------------
\* C2: every render through the root accessor ($index itself, $index(query),
\* the table called with a query record) succeeds iff "/" was declared, and
\* fails with the '"/" is not a defined route' error otherwise.  (Violated.)
\* ------------------------------------------------------------------------
C2_RootRenderIffDeclared ==
  (Rendering /\ nav.kind \in {"index", "node"})
    => IF RootDeclared THEN out.ok ELSE ~out.ok /\ out.err = RootNotDefinedMsg

\* ------------------------------------------------------------------------
\* C3: getRouteByName(routes, name, params, query).toString() equals the
\* string rendered after navigating the named route's segments through the
\* trie with the same parameter values and query.  (Violated.)
\* ------------------------------------------------------------------------
RECURSIVE Navigate(_, _, _, _, _, _)
\* the navigation of segs from position j on, from the outcome r of the steps before
Navigate(tree, r, segs, j, params, query) ==
  IF ~r.ok \/ j > Len(segs) THEN r
  ELSE LET last == j = Len(segs)
       IN IF StartsWithColon(segs[j])
            THEN Navigate(tree,
                          CallNav(tree, r.val, GetKey(params.e, Tail(segs[j])),
                                  IF last THEN query ELSE Undefined),
                          segs, j + 1, params, query)
            ELSE LET g == GetChild(tree, r.val, segs[j])
                 IN IF ~g.found \/ ~g.r.ok THEN Throw("Error", <<"not reachable">>)
                    ELSE Navigate(tree,
                                  IF last /\ query.k = "obj"
                                    THEN CallNav(tree, g.r.val, query, Undefined)
                                    ELSE g.r,
                                  segs, j + 1, params, query)

\* navigate the route of d (the root route through $index) and render
NavigationRender(d, params, query) ==
  LET start == IF Segs(d) = <<>>
                 THEN IF query.k = "obj" THEN CallNav(routes.tree, IndexNav, query, Undefined)
                      ELSE Ok(IndexNav)
                 ELSE Ok(RootNav)
      reached == Navigate(routes.tree, start, Segs(d), 1, Coalesce(params, Obj(<<>>)), query)
  IN IF ~reached.ok THEN reached
     ELSE ToStringOf(routes.tree, reached.val, options.trailingSlash)

\* the definition a name resolves to
NamedDefinition(name) ==
  definitions[CHOOSE i \in 1..Len(definitions) :
                /\ IsNamed(definitions[i]) /\ definitions[i].name.s = name
                /\ \A h \in (i + 1)..Len(definitions) :
                     ~(IsNamed(definitions[h]) /\ definitions[h].name.s = name)]

C3_NamedLookupEqualsNavigation ==
  (out.op = "getRouteByName" /\ out.a1.s \in DOMAIN routes.namedRoutes)
    => LET r == NavigationRender(NamedDefinition(out.a1.s), out.a2, out.a3)
       IN r.ok => (out.ok /\ nav.kind = "named" /\ nav.path = r.val.s)

\* ------------------------------------------------------------------------
\* C4: for every declared route whose path has only static segments,
\* navigating its segments in order from the table and rendering returns the
\* declared path, read without its empty segments (trailingSlash off).
\* (Violated: a segment named like an inherited property of the children
\* object cannot be navigated.)
\* ------------------------------------------------------------------------
C4_EveryStaticRouteRenders ==
  (out.op = "createRoutes" /\ routes.ok /\ ~options.trailingSlash)
    => \A d \in Declared :
         IsStaticOnly(d)
           => LET r == NavigationRender(d, Undefined, Undefined)
              IN r.ok /\ r.val.s = Canonical(d.path)

\* ------------------------------------------------------------------------
\* C5 (as stated): walking a declared route with parameters renders "/" and
\* its segments joined by "/", each parametric position holding the string
\* form of the output of the validator that route declares for it, the raw
\* value when it declares none (no query, trailingSlash off).
\* ------------------------------------------------------------------------
ParamWalk(d) ==
  /\ out.op = "toString"
  /\ nav.kind = "proxy"
  /\ ~HasQueryKeys(nav.query)
  /\ HasParams(d)
  /\ Walked(d)

\* what the validator v, if any, makes of the value given at position j
Resolved(v, j) == IF v = <<>> THEN String(trail[j].raw) ELSE String(runParser(v[1], trail[j].raw).val)
Accepts(v, j) == v = <<>> \/ runParser(v[1], trail[j].raw).ok
OwnValidator(d, j) == ParamsGet(d, Tail(Segs(d)[j]))
EdgeValidator(d, j) == KeptValidator(KeyPath(d, j))
ParamPositions(d) == {j \in 1..Len(Segs(d)) : StartsWithColon(Segs(d)[j])}

C6_ExactlyOneTrailingSlash ==
  (out.op = "toString" /\ out.ok)
    => LET p == PathPart(out.val.s)
       IN IF options.trailingSlash
            THEN EndsWithSlash(p) /\ (Len(p) >= 2 => p[Len(p) - 1] # "/")
            ELSE EndsWithSlash(p) => p = <<"/">>

\* ------------------------------------------------------------------------
\* C7 (as stated): the query string of a rendered URL lists its keys in the
\* insertion order of the record the caller supplied, whether or not the
\* route declares a query validator.
\* ------------------------------------------------------------------------
RenderedWithQuery ==
  /\ out.op = "toString"
  /\ out.ok
  /\ nav.kind \in {"proxy", "node"}
  /\ given.k = "obj"

IsListed(key) == \E i \in 1..Len(ListedKeys(out.val.s)) : ListedKeys(out.val.s)[i] = key

C7_CallerOrder ==
  RenderedWithQuery => ListedKeys(out.val.s) = SelectSeq(Keys(given.e), IsListed)

\* the keys of the record after validation: the caller's keys in the caller's
\* order when the node keeps no query validator, else the keys of the
\* validator map that the caller supplied, in the map's declaration order
IsGiven(key) == HasKey(given.e, key)
ValidatedKeys ==
  IF given.k # "obj" THEN <<>>
  ELSE IF KeptQueryMap(nav.at) = <<>> THEN Keys(given.e)
  ELSE SelectSeq(Keys(KeptQueryMap(nav.at)[1]), IsGiven)

\* C7 (amended): the query string of a rendered URL lists the keys of the
\* validated query record in that record's order: the caller's insertion
\* order when the node reached keeps no query validator, and otherwise the
\* declaration order of the validator map, restricted to the keys supplied.
C7_ValidatedOrder ==
  RenderedWithQuery => ListedKeys(out.val.s) = ValidatedKeys

\* a URL whose keys are listed in another order than the caller's
C7_Witness ==
  /\ RenderedWithQuery
  /\ Len(ListedKeys(out.val.s)) = Len(given.e)
  /\ Len(given.e) >= 2
  /\ ListedKeys(out.val.s) # Keys(given.e)

\* ------------------------------------------------------------------------
\* C8: a rendered URL contains "?" iff the query record has at least one key
\* after validation; an absent query, an empty record and a record whose keys
\* the query validator all drops render the bare path.
\* ------------------------------------------------------------------------
HasQuestionMark(url) == \E i \in 1..Len(url) : url[i] = "?"

C8_QuestionMarkIffKeys ==
  (out.op = "toString" /\ out.ok /\ nav.kind \in {"index", "proxy", "node"})
    => (HasQuestionMark(out.val.s) <=> Len(ValidatedKeys) > 0)

\* a record with a key was supplied, the validator dropped it, no "?" rendered
C8_Witness ==
  /\ out.op = "toString"
  /\ out.ok
  /\ given.k = "obj"
  /\ Len(given.e) > 0
  /\ KeptQueryMap(nav.at) # <<>>
  /\ ~HasQuestionMark(out.val.s)

\* ------------------------------------------------------------------------
\* C9: toPattern() at the terminal node of a declared route returns that
\* route's declared path (its segments joined by "/", with the ":name"
\* placeholders it declares, and one trailing "/" when trailingSlash is on),
\* whatever values were supplied.  (Violated.)
\* ------------------------------------------------------------------------
WithTrailingSlash(path) ==
  IF options.trailingSlash /\ ~EndsWithSlash(path) THEN path \o <<"/">> ELSE path

C9_PatternIsDeclaredPath ==
  \A d \in Declared :
    (/\ out.op = "toPattern"
     /\ Walked(d)
     /\ nav.kind \in {"index", "proxy", "node"}
     /\ routes.tree[nav.at].isTerminal)
      => (out.ok /\ out.val.s = WithTrailingSlash(Canonical(d.path)))

\* ------------------------------------------------------------------------
\* C10: toString() and toPattern() called on the table itself always fail
\* with the "use routes.$index" error, whether or not "/" is declared, and
\* that error is not the not-a-route error of the other navigation objects.
\* ------------------------------------------------------------------------
C10_RootRenderAlwaysFails ==
  (Rendering /\ nav.kind = "root")
    => /\ ~out.ok
       /\ out.err = UseIndexMsg(out.op)
       /\ out.err # RootNotDefinedMsg
       /\ ~NamesPattern(out.err, <<"/">>)

\* the table was asked to render although "/" is declared
C10_Witness ==
  /\ Rendering
  /\ nav.kind = "root"
  /\ RootDeclared
  /\ ~out.ok

\* ------------------------------------------------------------------------
\* C11: getRouteByName fails with the route-not-found error naming the
\* requested name iff no definition declared that name.  (Violated.)
\* ------------------------------------------------------------------------
NameDeclared(name) == \E d \in Declared : IsNamed(d) /\ d.name.s = name

C11_NotFoundIffUndeclared ==
  out.op = "getRouteByName"
    => ((~out.ok /\ out.err = RouteNotFoundMsg(out.a1.s)) <=> ~NameDeclared(out.a1.s))

\* ------------------------------------------------------------------------
\* C12: getAllRoutes returns one entry per supplied definition, in
\* declaration order, each with that definition's pattern and, for a config
\* record, its name and meta.  (Violated.)
\* ------------------------------------------------------------------------
C12_OneEntryPerDefinition ==
  out.op = "getAllRoutes"
    => /\ out.ok
       /\ Len(out.val.items) = Len(definitions)
       /\ \A i \in 1..Len(definitions) :
            /\ out.val.items[i].pattern = definitions[i].path
            /\ ~definitions[i].isString
                 => /\ out.val.items[i].name = definitions[i].name
                    /\ out.val.items[i].meta = definitions[i].meta

\* ------------------------------------------------------------------------
\* C13: a call with a scalar value is accepted only on a node with a
\* parametric child, that is, where some declared route continues with a
\* ":name" segment; elsewhere it fails with "Invalid arguments".  (Violated.)
\* ------------------------------------------------------------------------
\* some definition declares the edge into keys as a ":name" segment
ParamDeclaredAt(keys) ==
  \E i \in Through(keys) : StartsWithColon(Segs(definitions[i])[Len(keys)])
\* some definition through the node at keys continues with a ":name" segment
ParamDeclaredUnder(keys) ==
  \E i \in Through(keys) :
    /\ Len(Segs(definitions[i])) > Len(keys)
    /\ StartsWithColon(Segs(definitions[i])[Len(keys) + 1])

C13_ValueCallNeedsParamChild ==
  out.op = "callValue"
    => IF out.ok
         THEN nav.at # <<>> /\ ParamDeclaredAt(nav.at)
         ELSE ~ParamDeclaredUnder(nav.at) => out.err = <<"Invalid arguments">>

\* ------------------------------------------------------------------------
\* C14: a call with a query record in place of a scalar is accepted only
\* when the current node is terminal; on a node that is not terminal it is a
\* usage error ("Invalid arguments").  (Violated.)
\* ------------------------------------------------------------------------
C14_QueryCallNeedsTerminal ==
  (out.op = "callQuery" /\ out.a1.k = "obj" /\ ~routes.tree[nav.at].isTerminal)
    => (~out.ok /\ out.err = <<"Invalid arguments">>)

\* ------------------------------------------------------------------------
\* C15: a query-only call returns a navigation object at the same trie node
\* with the same segments, whose query is the supplied record as validated
\* by the query validator of that node; the query held before the call
\* leaves no trace in it.
\* ------------------------------------------------------------------------
\* the members of a set of positions, in increasing order
Ascending(S) ==
  [j \in 1..Cardinality(S) |-> CHOOSE i \in S : Cardinality({h \in S : h < i}) = j - 1]

\* raw as the query validator the definitions leave on the node at keys
\* returns it: the declared keys that raw has, in the order of the validator
\* map, each with its field validator's output
ValidatedQuery(keys, raw) ==
  IF raw.k # "obj" \/ KeptQueryMap(keys) = <<>> THEN raw
  ELSE LET map == KeptQueryMap(keys)[1]
           present == Ascending({i \in 1..Len(map) : HasKey(raw.e, map[i].key)})
       IN Obj([j \in 1..Len(present) |->
                 [key |-> map[present[j]].key,
                  val |-> runParser(map[present[j]].val,
                                    GetKey(raw.e, map[present[j]].key)).val]])

C15_QueryCallReplaces ==
  [][(out'.op = "callQuery" /\ out'.ok)
       => /\ nav'.at = nav.at
          /\ nav'.segments = nav.segments
          /\ nav'.query = ValidatedQuery(nav.at, out'.a1)]_vars

\* a query-only call was made on a node that keeps a query validator, with a
\* record that the validator passes on changed
C15_Witness ==
  /\ out.op = "callQuery"
  /\ out.ok
  /\ nav.kind = "proxy"
  /\ KeptQueryMap(nav.at) # <<>>
  /\ HasQueryKeys(nav.query)
  /\ nav.query # out.a1

\* ------------------------------------------------------------------------
\* C16: when the validator of the parametric child rejects the value, the
\* value call itself fails with the validator's error, and the caller gets
\* no navigation object for that step.
\* ------------------------------------------------------------------------
\* the validator of the parametric child of the node at keys rejects value
ChildRejects(keys, value) ==
  /\ Through(Append(keys, ParamKey)) # {}
  /\ KeptValidator(Append(keys, ParamKey)) # <<>>
  /\ ~runParser(KeptValidator(Append(keys, ParamKey))[1], value).ok

C16_RejectedValueFailsTheCall ==
  [][(out'.op = "callValue" /\ ChildRejects(nav.at, out'.a1))
       => /\ ~out'.ok
          /\ out'.cls = runParser(KeptValidator(Append(nav.at, ParamKey))[1], out'.a1).cls
          /\ out'.err = runParser(KeptValidator(Append(nav.at, ParamKey))[1], out'.a1).err
          /\ nav' = nav
          /\ trail' = trail]_vars

\* a value call failed with the error of the child's validator
C16_Witness ==
  /\ out.op = "callValue"
  /\ ~out.ok
  /\ ChildRejects(nav.at, out.a1)
  /\ out.err = <<"Invalid number">>

\* ------------------------------------------------------------------------
\* C17: descending by a name for which the current node has no matching
\* child returns undefined and never raises an error, whatever the name.
\* (Violated.)
\* ------------------------------------------------------------------------
\* some definition through the node at keys continues with the key name
ChildDeclared(keys, name) ==
  \E i \in Through(keys) :
    /\ Len(Segs(definitions[i])) > Len(keys)
    /\ KeyPath(definitions[i], Len(keys) + 1)[Len(keys) + 1] = name
\* a child of the node, or of its parametric child, matches name
HasMatchingChild(keys, name) ==
  ChildDeclared(keys, name) \/ ChildDeclared(Append(keys, ParamKey), name)

C17_UnknownNameIsAbsent ==
  [][(/\ out'.op \in {"get", "absent"}
      /\ ~(nav.kind = "root" /\ out'.a1.s = <<"$index">>)
      /\ ~HasMatchingChild(nav.at, out'.a1.s))
       => /\ out'.op = "absent"
          /\ out'.ok
          /\ out'.val = Undefined
          /\ nav' = nav]_vars

Rank(member) ==
  CASE member = "fn" -> 1
    [] member = "parse" -> 2
    [] member = "validateSync" -> 3
    [] member = "decode" -> 4

Exposed(parser) == {m \in Members : ~IsPrimitive(parser) /\ IsFunction(parser[m])}
First(parser) == CHOOSE m \in Exposed(parser) : \A n \in Exposed(parser) : Rank(m) <= Rank(n)

C19_FirstMatchingConventionOnce ==
  (out.op = "runParser" /\ Exposed(out.a1) # {})
    => LET first == First(out.a1)
           yielded == Call(out.a1[first], out.a2)
       IN /\ out.a3 = <<[member |-> first, arg |-> out.a2]>>
          /\ first # "decode"
               => /\ out.ok = yielded.ok
                  /\ out.val = yielded.val
                  /\ out.cls = yielded.cls
                  /\ out.err = yielded.err
          /\ (first = "decode" /\ out.ok) => out.val = yielded.val.payload

\* a validator whose parse is not a function and which exposes validateSync
\* and decode was run, and validateSync's value came back
C19_Witness ==
  /\ out.op = "runParser"
  /\ ~IsPrimitive(out.a1)
  /\ out.a1.fn = "none"
  /\ out.a1.parse = "data"
  /\ out.a1.validateSync = "double"
  /\ out.a1.decode = "decLeft"
  /\ out.ok
  /\ out.val = Num(10)

\* ------------------------------------------------------------------------
\* C20: when runParser goes through decode, a result tagged Right yields its
\* payload, and a result tagged Left raises an error whose message contains
\* JSON.stringify of the payload, and no value is returned.
\* ------------------------------------------------------------------------
Contains(s, sub) ==
  \E i \in 1..(Len(s) - Len(sub) + 1) : SubSeq(s, i, i + Len(sub) - 1) = sub

C20_DecodeRightYieldsLeftRaises ==
  (out.op = "runParser" /\ Len(out.a3) = 1 /\ out.a3[1].member = "decode")
    => LET result == Call(out.a1.decode, out.a2).val
       IN /\ result.tag = "Right" => (out.ok /\ out.val = result.payload)
          /\ result.tag = "Left"
               => /\ ~out.ok
                  /\ out.val = Undefined
                  /\ Contains(out.err, JSONStringify(result.payload))

\* decode rejected the raw value "v" and the error names it
C20_Witness ==
  /\ out.op = "runParser"
  /\ out.a3 = <<[member |-> "decode", arg |-> JStr(<<"v">>)]>>
  /\ ~out.ok
  /\ out.err = <<"Decode failed: ", "\"", "v", "\"">>

\* ------------------------------------------------------------------------
\* C21: the combined validator returns a record whose keys are exactly the
\* keys declared in the map that the input record has, each with its field
\* validator's output; absent keys are skipped, no key is added, and input
\* keys without a declared validator are not passed through.
\* ------------------------------------------------------------------------
KeySet(e) == {e[i].key : i \in 1..Len(e)}

C21_DeclaredAndPresentKeysOnly ==
  out.op = "parse"
    => LET map == out.a1.e
           obj == out.a2.e
           fails == \E k \in KeySet(map) \cap KeySet(obj) :
                      ~runParser(GetKey(map, k), GetKey(obj, k)).ok
       IN IF fails THEN ~out.ok
          ELSE /\ out.ok
               /\ KeySet(out.val.e) = KeySet(map) \cap KeySet(obj)
               /\ Len(out.val.e) = Cardinality(KeySet(out.val.e))
               /\ \A k \in KeySet(out.val.e) :
                    GetKey(out.val.e, k) = runParser(GetKey(map, k), GetKey(obj, k)).val

\* ------------------------------------------------------------------------
\* C22: when the validator value matches none of the four shapes (it is not
\* callable and has no parse, validateSync or decode that is a function),
\* runParser raises the "Invalid parser" error: it returns no value, calls
\* nothing and fails in no other way.
\* ------------------------------------------------------------------------
C22_UnsupportedValidatorIsReported ==
  (out.op = "runParser" /\ Exposed(out.a1) = {})
    => /\ ~out.ok
       /\ out.a3 = <<>>
       /\ out.cls = "Error"
       /\ out.err = InvalidParserMsg

\* ------------------------------------------------------------------------
\* C23: getMeta() on a navigation object returns the metadata declared by a
\* route ending at its trie node, and undefined when no declared route with
\* metadata ends there (so on every non-terminal node); and a named lookup
\* of a declared name returns an object whose getMeta() is that named
\* definition's metadata.
\* ------------------------------------------------------------------------
DeclaredMeta(keys) ==
  {definitions[i].meta : i \in {h \in EndingAt(keys) : Truthy(definitions[h].meta)}}

C23_NavigationMeta ==
  (out.op = "getMeta" /\ nav.kind # "named")
    => /\ out.ok
       /\ IF DeclaredMeta(nav.at) = {} THEN out.val = Undefined
          ELSE out.val \in DeclaredMeta(nav.at)

C23_NamedMeta ==
  (out.op = "getRouteByName" /\ NameDeclared(out.a1.s)
     /\ NavigationRender(NamedDefinition(out.a1.s), out.a2, out.a3).ok)
    => /\ out.ok
       /\ nav.kind = "named"
       /\ GetMetaOf(routes.tree, nav).val
            = Coalesce(NamedDefinition(out.a1.s).meta, Undefined)

C23_GetMetaIsDeclaredMeta == C23_NavigationMeta /\ C23_NamedMeta

\* ------------------------------------------------------------------------
\* C24: after createRoutes, the read of the table's metadata slot that
\* getRouteByName and getAllRoutes make returns the record stored at
\* construction (the named registry and the all-routes list): the lookup
\* neither hides the record nor fails.
\* ------------------------------------------------------------------------
C24_MetadataSlotIsReadable ==
  (routes.ok /\ out.op \in {"getRouteByName", "getAllRoutes"})
    => /\ ReadMetadata(routes).ok
       /\ ReadMetadata(routes).val.k = "metadata"
       /\ ReadMetadata(routes).val.namedRoutes = routes.namedRoutes
       /\ ReadMetadata(routes).val.allRoutes = routes.allRoutes
       /\ out.cls # "TypeError"

\* ------------------------------------------------------------------------
\* C25: the segments of every navigation object are as many as the depth of
\* its trie node and spell the path from the root to it: a static segment is
\* the static key taken, a param segment stands for one parametric edge.
\* Hence whatever renders has the shape of a declared route, with no
\* parametric position skipped.
\* ------------------------------------------------------------------------
SpellsPath(segments, keys) ==
  /\ Len(segments) = Len(keys)
  /\ \A j \in 1..Len(segments) :
       IF segments[j].type = "static" THEN keys[j] = segments[j].name.s
       ELSE keys[j] = ParamKey

\* the segments are those of the declared route d, position by position
HasShapeOf(segments, d) ==
  /\ Len(segments) = Len(Segs(d))
  /\ \A j \in 1..Len(segments) :
       IF StartsWithColon(Segs(d)[j]) THEN segments[j].type = "param"
       ELSE segments[j].type = "static" /\ segments[j].name.s = Segs(d)[j]

C25_SegmentsSpellTheNodePath ==
  nav.kind = "proxy"
    => /\ SpellsPath(nav.segments, nav.at)
       /\ (Rendering /\ out.ok) => \E d \in Declared : HasShapeOf(nav.segments, d)

\* ------------------------------------------------------------------------
\* C26: after construction a trie node is terminal iff the segments of some
\* declared route end exactly at it: a node that is only a prefix of longer
\* routes is not terminal, a prefix declared on its own is terminal and keeps
\* its children, and the root is terminal iff a route without segments ("/")
\* was declared.
\* ------------------------------------------------------------------------
C26_TerminalIffARouteEndsThere ==
  (out.op = "createRoutes" /\ routes.ok)
    => /\ \A at \in DOMAIN routes.tree : routes.tree[at].isTerminal <=> EndingAt(at) # {}
       /\ routes.tree[<<>>].isTerminal <=> RootDeclared

\* "/a" and "/a/:x" were both declared: the node of a is terminal and has its
\* parametric child, which is terminal too
C26_Witness ==
  /\ out.op = "createRoutes"
  /\ routes.ok
  /\ <<<<"a">>, ParamKey>> \in DOMAIN routes.tree
  /\ routes.tree[<<<<"a">>>>].isTerminal
  /\ routes.tree[<<<<"a">>, ParamKey>>].isTerminal
  /\ ~routes.tree[<<>>].isTerminal

\* ------------------------------------------------------------------------
\* C27: when definitions declare different parameter names at one trie
\* position they share one parametric edge, and the parameter name and the
\* parameter validator kept for the edge are those of the last of these
\* declarations.
\* ------------------------------------------------------------------------
\* the definitions that declare a parameter for the edge into keys
DeclaringParam(keys) ==
  {i \in Through(keys) : StartsWithColon(Segs(definitions[i])[Len(keys)])}
ParamNameOf(i, j) == Tail(Segs(definitions[i])[j])

C27_LastDeclarationOfAnEdgeWins ==
  (out.op = "createRoutes" /\ routes.ok)
    => \A at \in DOMAIN routes.tree :
         (/\ at # <<>>
          /\ \E i \in DeclaringParam(at) : \E h \in DeclaringParam(at) :
               ParamNameOf(i, Len(at)) # ParamNameOf(h, Len(at)))
           => LET last == Latest(DeclaringParam(at))
              IN /\ routes.tree[at].paramName = JStr(ParamNameOf(last, Len(at)))
                 /\ routes.tree[at].paramParser
                      = ParamsGet(definitions[last], ParamNameOf(last, Len(at)))

\* ------------------------------------------------------------------------
\* C28: for a named route in which only some of the path parameters declare
\* validators, getRouteByName substitutes the supplied value for every path
\* parameter: a parameter without a validator keeps its supplied value, and
\* no supplied parameter is rendered as the text "undefined".
\* ------------------------------------------------------------------------
ParamsOf(d) == ParamNamesOf(Segs(d), 1)
Validated(d) == {j \in 1..Len(ParamsOf(d)) : ParamsGet(d, ParamsOf(d)[j]) # <<>>}
PartlyValidated(d) == Validated(d) # {} /\ Validated(d) # 1..Len(ParamsOf(d))
\* params has a value for every path parameter of d, and d's validators accept
Supplies(params, d) ==
  /\ params.k = "obj"
  /\ \A j \in 1..Len(ParamsOf(d)) : HasKey(params.e, ParamsOf(d)[j])
  /\ \A j \in Validated(d) :
       runParser(ParamsGet(d, ParamsOf(d)[j])[1], GetKey(params.e, ParamsOf(d)[j])).ok

C28_UnvalidatedParamsKeepTheirValue ==
  (/\ out.op = "getRouteByName"
   /\ NameDeclared(out.a1.s)
   /\ PartlyValidated(NamedDefinition(out.a1.s))
   /\ Supplies(out.a2, NamedDefinition(out.a1.s)))
    => LET d == NamedDefinition(out.a1.s)
       IN /\ out.ok
          /\ nav.kind = "named"
          /\ ~Contains(nav.path, <<"undefined">>)
          /\ \A j \in (1..Len(ParamsOf(d))) \ Validated(d) :
               Contains(nav.path, String(GetKey(out.a2.e, ParamsOf(d)[j])))

\* ------------------------------------------------------------------------
\* C29: in every trie node the key of the parametric child differs from the
\* key of every static segment, so that a declared static segment (also one
\* spelled "$param") is never stored as, nor retrieved as, the parametric
\* child: no static segment of a declared route lies on a parametric key, and
\* a node reached through static segments of one route only is never the
\* node a value call arrives at.
\* ------------------------------------------------------------------------
C29_ParamKeyIsNoStaticKey ==
  /\ (out.op = "createRoutes" /\ routes.ok)
       => \A i \in 1..Len(definitions) : \A j \in 1..Len(Segs(definitions[i])) :
            ~StartsWithColon(Segs(definitions[i])[j])
              => KeyPath(definitions[i], j)[j] # ParamKey
  /\ (out.op = "callValue" /\ out.ok)
       => \E i \in Through(nav.at) : StartsWithColon(Segs(definitions[i])[Len(nav.at)])

C31_LaterDefinitionOwnsTheNode ==
  (out.op = "createRoutes" /\ routes.ok)
    => \A at \in DOMAIN routes.tree :
         Cardinality(EndingAt(at)) >= 2
           => LET later == definitions[Latest(EndingAt(at))]
              IN /\ routes.tree[at].queryParser
                      = (IF later.query # <<>> THEN <<createObjectParser(later.query[1])>>
                         ELSE <<>>)
                 /\ Coalesce(routes.tree[at].meta, Undefined) = Coalesce(later.meta, Undefined)

\* ------------------------------------------------------------------------
\* C32: paths that differ only by leading, trailing or repeated "/" resolve
\* to the same trie node: whichever spelling the definitions use, the trie
\* built is the same, and the same navigation chain renders with the same
\* result.
\* ------------------------------------------------------------------------
Styles == {"plain", "trailing", "leading", "repeated"}
\* the segments segs written as a path in one of the styles
Spell(segs, style) ==
  CASE style = "plain" -> <<"/">> \o Join(segs, "/")
    [] style = "trailing" -> <<"/">> \o Join(segs, "/") \o <<"/">>
    [] style = "leading" -> <<"/", "/">> \o Join(segs, "/")
    [] style = "repeated" ->
         <<"/">> \o Join([i \in 1..Len(segs) |->
                            IF i < Len(segs) THEN Append(segs[i], "/") ELSE segs[i]], "/")
\* the trie of the definitions with every path written in the style
RespelledTree(style) ==
  buildTree([i \in 1..Len(definitions) |->
               [definitions[i] EXCEPT !.path = Spell(PathSegments(@), style)]])

C32_SpellingDoesNotMatter ==
  /\ out.op = "createRoutes"
       => \A style \in Styles :
            /\ RespelledTree(style).ok = routes.ok
            /\ routes.ok => RespelledTree(style).tree = routes.tree
  /\ (out.op \in {"toString", "toPattern"} /\ nav.kind = "proxy")
       => \A style \in Styles :
            LET r == IF out.op = "toString"
                       THEN ToStringOf(RespelledTree(style).tree, nav, options.trailingSlash)
                       ELSE ToPatternOf(RespelledTree(style).tree, nav, options.trailingSlash)
            IN r.ok = out.ok /\ r.val = out.val /\ r.err = out.err

\* "/a/" was declared with a trailing "/", and the chain of "/a" rendered
C32_Witness ==
  /\ definitions = <<RouteString(<<"/", "a", "/">>)>>
  /\ out.op = "toString"
  /\ out.ok
  /\ nav.at = <<<<"a">>>>
  /\ out.val = JStr(<<"/", "a">>)

\* ------------------------------------------------------------------------
\* C33: every declared route is reachable by navigating its segments in
\* order: wherever a declared route continues from the node of a navigation
\* object with a static segment, reading the property of that name returns a
\* navigation object bound to the child node of that segment, whatever the
\* name is, the names of the objects' own members (toString, toPattern,
\* getMeta, then, __segments, __query, $index at the root) included.
\* ------------------------------------------------------------------------
\* some definition through the node at keys continues with the static segment name
StaticChildDeclared(keys, name) ==
  \E i \in Through(keys) :
    /\ Len(Segs(definitions[i])) > Len(keys)
    /\ Segs(definitions[i])[Len(keys) + 1] = name

C33_EveryDeclaredSegmentIsReachable ==
  [][(/\ out'.op \in {"get", "member", "absent"}
      /\ StaticChildDeclared(nav.at, out'.a1.s))
       => /\ out'.op = "get"
          /\ out'.ok
          /\ nav'.kind = "proxy"
          /\ nav'.at = Append(nav.at, out'.a1.s)]_vars

\* ------------------------------------------------------------------------
\* C34: when two definitions declare the same name, construction does not
\* fail, a named lookup of the name resolves to the later definition, and
\* getAllRoutes lists both definitions.
\* ------------------------------------------------------------------------
Naming(name) == {i \in 1..Len(definitions) : IsNamed(definitions[i]) /\ definitions[i].name.s = name}
DeclaredTwice(name) == Cardinality(Naming(name)) >= 2

\* the registry built at construction keeps the later definition
C34_RegistryKeepsTheLater ==
  \A name \in RouteNames :
    DeclaredTwice(name)
      => /\ routes.ok
         /\ name \in DOMAIN routes.namedRoutes
         /\ routes.namedRoutes[name].pattern = definitions[Latest(Naming(name))].path

C34_DuplicateNameResolvesToTheLater ==
  /\ C34_RegistryKeepsTheLater
  /\ (out.op = "getRouteByName" /\ DeclaredTwice(out.a1.s)
        /\ Supplies(out.a2, definitions[Latest(Naming(out.a1.s))]))
       => /\ out.ok
          /\ nav.kind = "named"
          /\ nav.pattern = definitions[Latest(Naming(out.a1.s))].path
  /\ (out.op = "getAllRoutes" /\ \E name \in RouteNames : DeclaredTwice(name))
       => /\ out.ok
          /\ Len(out.val.items) = Len(definitions)

\* ------------------------------------------------------------------------
\* C35: for every named route, toPattern() of the result of getRouteByName
\* equals toPattern() of the navigation object reached by walking the same
\* route through the trie, under either trailingSlash setting and for every
\* spelling of the declared path.
\* ------------------------------------------------------------------------
\* toPattern() of the object the navigation of d's segments reaches
NavigationPattern(d, params) ==
  LET reached == Navigate(routes.tree, IF Segs(d) = <<>> THEN Ok(IndexNav) ELSE Ok(RootNav),
                          Segs(d), 1, Coalesce(params, Obj(<<>>)), Undefined)
  IN IF ~reached.ok THEN reached
     ELSE ToPatternOf(routes.tree, reached.val, options.trailingSlash)

C35_NamedPatternEqualsNavigationPattern ==
  (out.op = "getRouteByName" /\ NameDeclared(out.a1.s)
     /\ NavigationPattern(NamedDefinition(out.a1.s), out.a2).ok)
    => /\ out.ok
       /\ nav.kind = "named"
       /\ nav.pattern = NavigationPattern(NamedDefinition(out.a1.s), out.a2).val.s

\* ------------------------------------------------------------------------
\* C36: the shape of the trie (its nodes and their child keys) and its set of
\* terminal nodes are the same for every permutation of the definition list:
\* only the parameter names, validators and metadata kept at shared nodes can
\* depend on the order of declaration.
\* ------------------------------------------------------------------------
Orders(n) == {p \in [1..n -> 1..n] : \A i \in 1..n : \E j \in 1..n : p[j] = i}
Permuted(p) == [i \in 1..Len(definitions) |-> definitions[p[i]]]
TerminalNodes(tree) == {at \in DOMAIN tree : tree[at].isTerminal}

C36_ShapeIndependentOfOrder ==
  out.op = "createRoutes"
    => \A p \in Orders(Len(definitions)) :
         LET built == buildTree(Permuted(p))
         IN /\ built.ok = routes.ok
            /\ routes.ok
                 => /\ DOMAIN built.tree = DOMAIN routes.tree
                    /\ TerminalNodes(built.tree) = TerminalNodes(routes.tree)

\* "/a/:y/b" was declared before "/a/:x": the other order gives another trie
\* (the parameter name kept on the shared edge), of the same shape
C36_Witness ==
  /\ out.op = "createRoutes"
  /\ routes.ok
  /\ Len(definitions) = 2
  /\ definitions[1] = RouteString(<<"/", "a", "/", ":", "y", "/", "b">>)
  /\ definitions[2].path = <<"/", "a", "/", ":", "x">>
  /\ buildTree(<<definitions[2], definitions[1]>>).tree # routes.tree
  /\ TerminalNodes(routes.tree) = {<<<<"a">>, ParamKey>>, <<<<"a">>, ParamKey, <<"b">>>>}

====
